---- MODULE Spec2Model ----
(***************************************************************************)
(* Rifthold window provider (src-tauri/src/lib.rs): enumeration and        *)
(* filtering of windows, the snapshot cache, the refresh coordinator with  *)
(* its generation counter, and the activation resolver.                    *)
(*                                                                         *)
(* Strings are sequences of one-character strings, so that to_string,      *)
(* parse, trim and is_empty are computed and not assumed.  Option<T> is a  *)
(* sequence of length at most one: None == <<>>, Some(x) == <<x>>.         *)
(***************************************************************************)
EXTENDS Integers, Sequences, FiniteSets, TLC

\* ------------------------------------------------------------------------
\* Option<T>
\* ------------------------------------------------------------------------
None == <<>>

Some(x) == <<x>>

IsSome(o) == o # <<>>

UnwrapOr(o, d) == IF o = <<>> THEN d ELSE o[1]

\* ------------------------------------------------------------------------
\* Strings
\* ------------------------------------------------------------------------
Whitespace == {" ", "\t", "\n"}

Digits == <<"0", "1", "2", "3", "4", "5", "6", "7", "8", "9">>

RECURSIVE TrimStart(_)
TrimStart(s) ==
    IF s = <<>> THEN <<>>
    ELSE IF s[1] \in Whitespace THEN TrimStart(Tail(s)) ELSE s

RECURSIVE TrimEnd(_)
TrimEnd(s) ==
    IF s = <<>> THEN <<>>
    ELSE IF s[Len(s)] \in Whitespace THEN TrimEnd(SubSeq(s, 1, Len(s) - 1)) ELSE s

\* str::trim
\* Trim that removes nothing
Trim_Identity(s) == s

Trim(s) == TrimEnd(TrimStart(s))

\* str::is_empty
IsEmpty(s) == Len(s) = 0

RECURSIVE NatToString(_)
NatToString(n) ==
    IF n < 10 THEN <<Digits[n + 1]>>
    ELSE NatToString(n \div 10) \o <<Digits[(n % 10) + 1]>>

\* i64::to_string
I64ToString(n) == IF n < 0 THEN <<"-">> \o NatToString(-n) ELSE NatToString(n)

IsDigit(c) == \E d \in 1..10 : Digits[d] = c

DigitVal(c) == (CHOOSE d \in 1..10 : Digits[d] = c) - 1

RECURSIVE DigitsValue(_, _)
DigitsValue(s, acc) ==
    IF s = <<>> THEN acc ELSE DigitsValue(Tail(s), acc * 10 + DigitVal(s[1]))

AllDigits(s) == s # <<>> /\ \A i \in 1..Len(s) : IsDigit(s[i])

\* str::parse::<i64>: optional sign, then one or more decimal digits.
ParseI64(s) ==
    IF s = <<>> THEN None
    ELSE IF s[1] \in {"+", "-"}
         THEN IF AllDigits(Tail(s)) /\ Len(s) <= 19
              THEN Some(IF s[1] = "-" THEN -DigitsValue(Tail(s), 0)
                                      ELSE DigitsValue(Tail(s), 0))
              ELSE None
         ELSE IF AllDigits(s) /\ Len(s) <= 18 THEN Some(DigitsValue(s, 0)) ELSE None

\* ------------------------------------------------------------------------
\* The OS window registry as seen through CGWindowListCreate /
\* CGWindowListCreateDescriptionFromArray.
\* ------------------------------------------------------------------------
\* Bound on the number of raw records of one enumeration.
MaxWindows == 3

Safari == <<"S", "a", "f", "a", "r", "i">>

Notes == <<"N", "o", "t", "e", "s">>

Docs == <<"D", "o", "c", "s">>

ControlCenter == <<"C", "o", "n", "t", "r", "o", "l", " ", "C", "e", "n", "t", "e", "r">>

DefaultAppName == <<"A", "p", "p">>

\* std::process::id() of the overlay itself, and the pid of another process
Pids == [current |-> 77, other |-> 10]

CurrentPid == Pids.current

OtherPid == Pids.other

\* kCGWindowOwnerName / kCGWindowName values of a description dictionary:
\* absent (or not a string), blank, or a name.
OwnerValues == {None, Some(<<" ">>), Some(Safari), Some(ControlCenter)}

TitleValues == {None, Some(<<" ", "\t">>), Some(Docs), Some(Safari)}

RawRecord(number, owner, name, pid, layer) ==
    [number |-> number, owner |-> owner, name |-> name, pid |-> pid, layer |-> layer]

\* Description dictionaries.  The full product of the five keys is cut down
\* to the records in which either the names or the filter keys (pid, layer)
\* vary, so that the set of enumerations stays small.
RawRecords ==
    {RawRecord(Some(1), o, t, Some(OtherPid), Some(0)) : o \in OwnerValues, t \in TitleValues}
    \cup
    {RawRecord(Some(2), Some(Safari), Some(Docs), p, l) :
        p \in {None, Some(CurrentPid), Some(OtherPid)}, l \in {None, Some(0), Some(25)}}
    \cup
    {RawRecord(Some(2), Some(Safari), t, Some(OtherPid), Some(0)) : t \in {None, Some(Safari)}}
    \cup
    {RawRecord(Some(10), Some(Safari), Some(Docs), None, Some(0)),
     RawRecord(Some(10), Some(Notes), None, Some(OtherPid), None),
     RawRecord(None, Some(Safari), Some(Docs), Some(OtherPid), Some(0))}

\* The window server identifies a window by its number: one enumeration
\* never reports the same kCGWindowNumber twice.
DistinctNumbers(raw) ==
    \A i, j \in 1..Len(raw) :
        (i # j /\ raw[i].number # None) => raw[i].number # raw[j].number

SeqsUpTo(S, n) == UNION {[1..k -> S] : k \in 0..n}

Enumerations == {raw \in SeqsUpTo(RawRecords, MaxWindows) : DistinctNumbers(raw)}

\* ------------------------------------------------------------------------
\* MacWindowProvider::list, first and second pass
\* ------------------------------------------------------------------------
\* string_for_key: downcast to a string, dropped when blank
string_for_key(v) ==
    IF v = None THEN None
    ELSE IF IsEmpty(Trim(v[1])) THEN None ELSE v

\* number_for_key
number_for_key(v) == v

\* PendingOf with the id taken from the owner pid instead of the window number
PendingOf_IdFromPid(dict) ==
    [id        |-> I64ToString(UnwrapOr(number_for_key(dict.pid), 0)),
     app_name  |-> UnwrapOr(string_for_key(dict.owner), DefaultAppName),
     cg_title  |-> string_for_key(dict.name),
     owner_pid |-> number_for_key(dict.pid)]

\* the tuple (id, app_name, cg_title, owner_pid) pushed for one dictionary
PendingOf(dict) ==
    [id        |-> I64ToString(number_for_key(dict.number)[1]),
     app_name  |-> UnwrapOr(string_for_key(dict.owner), DefaultAppName),
     cg_title  |-> string_for_key(dict.name),
     owner_pid |-> number_for_key(dict.pid)]

\* Kept without the layer filter
Kept_AnyLayer(dict) ==
    /\ number_for_key(dict.number) # None
    /\ number_for_key(dict.pid) # Some(CurrentPid)
    /\ UnwrapOr(string_for_key(dict.owner), DefaultAppName) # ControlCenter

\* the three `continue` filters of the first pass (and the missing number)
Kept(dict) ==
    /\ number_for_key(dict.number) # None
    /\ number_for_key(dict.pid) # Some(CurrentPid)
    /\ UnwrapOr(number_for_key(dict.layer), 0) = 0
    /\ UnwrapOr(string_for_key(dict.owner), DefaultAppName) # ControlCenter

RECURSIVE pending_entries(_)
pending_entries(descriptions) ==
    IF descriptions = <<>> THEN <<>>
    ELSE IF Kept(Head(descriptions))
         THEN <<PendingOf(Head(descriptions))>> \o pending_entries(Tail(descriptions))
         ELSE pending_entries(Tail(descriptions))

\* second pass: title derivation
HasRealTitle(p) == p.cg_title # None /\ ~IsEmpty(Trim(p.cg_title[1]))

\* EntryOf with the default name "App" as the fallback title
EntryOf_FallbackToDefault(p) ==
    [id                |-> p.id,
     title             |-> IF HasRealTitle(p) THEN p.cg_title[1] ELSE DefaultAppName,
     app_name          |-> p.app_name,
     is_title_fallback |-> ~HasRealTitle(p),
     owner_pid         |-> p.owner_pid]

EntryOf(p) ==
    [id                |-> p.id,
     title             |-> IF HasRealTitle(p) THEN p.cg_title[1] ELSE p.app_name,
     app_name          |-> p.app_name,
     is_title_fallback |-> ~HasRealTitle(p),
     owner_pid         |-> p.owner_pid]

BuildEntries(descriptions) ==
    LET pend == pending_entries(descriptions)
    IN  [i \in 1..Len(pend) |-> EntryOf(pend[i])]

\* the WindowInfo built from an entry and the outcome of its capture
InfoOf(entry, thumbnail) ==
    [id                |-> entry.id,
     title             |-> entry.title,
     app_name          |-> entry.app_name,
     is_title_fallback |-> entry.is_title_fallback,
     thumbnail         |-> thumbnail]

\* ------------------------------------------------------------------------
\* Thumbnail capture (capture_window_thumbnail)
\* ------------------------------------------------------------------------
\* max_thumbnail_width / the 500 passed by the commands
MaxThumbnailWidth == 500

\* What the native calls of one capture return: the CGImage (None: null) with
\* its size, and whether the bitmap context, its data pointer and the JPEG
\* encoder succeed.
Capture(image, context_ok, data_ok, encode_ok) ==
    [image |-> image, context_ok |-> context_ok, data_ok |-> data_ok, encode_ok |-> encode_ok]

CaptureOutcomes ==
    {Capture(None, TRUE, TRUE, TRUE),
     Capture(Some([width |-> 1000, height |-> 301]), TRUE, TRUE, TRUE),
     Capture(Some([width |-> 400, height |-> 300]), TRUE, TRUE, FALSE)}

\* (new_width, new_height): the width capped at max_width, the height scaled
\* by max_width / width and truncated by the `as usize` cast
TargetSize(width, height, max_width) ==
    IF width > max_width
    THEN [width |-> max_width, height |-> (height * max_width) \div width]
    ELSE [width |-> width, height |-> height]

\* Some(data URL) of a JPEG of the target size, or None
capture_window_thumbnail(outcome, max_width) ==
    IF outcome.image = None THEN None
    ELSE IF outcome.image[1].width = 0 \/ outcome.image[1].height = 0 THEN None
    ELSE IF ~outcome.context_ok \/ ~outcome.data_ok \/ ~outcome.encode_ok THEN None
    ELSE Some([jpeg |-> TargetSize(outcome.image[1].width, outcome.image[1].height, max_width)])

\* ------------------------------------------------------------------------
\* The snapshot cache: HashMap<String, MacWindowEntry>
\* ------------------------------------------------------------------------
EmptyMap == [k \in {} |-> k]

\* HashMap::insert
MapInsert(m, k, v) == [x \in (DOMAIN m) \cup {k} |-> IF x = k THEN v ELSE m[x]]

\* HashMap::get(..).cloned()
MapGet(m, k) == IF k \in DOMAIN m THEN Some(m[k]) ELSE None

RECURSIVE InsertAll(_, _)
InsertAll(m, entries) ==
    IF entries = <<>> THEN m
    ELSE InsertAll(MapInsert(m, Head(entries).id, Head(entries)), Tail(entries))

\* refresh_snapshot run without interruption: clear, then insert every entry
SnapshotOf(entries) == InsertAll(EmptyMap, entries)

\* refresh_snapshot without the clear: the entries are added to the old map
refresh_snapshot_NoClear(cache, entries) == InsertAll(cache, entries)

\* refresh_snapshot on the cache of the provider, run under its lock:
\* cache.clear(), then cache.insert(entry.id.clone(), entry.clone()) for each
refresh_snapshot(cache, entries) == SnapshotOf(entries)

\* ------------------------------------------------------------------------
\* What one OS query of list() returns: create_window_list fails, or
\* create_description_from_array fails, or the description dictionaries.
\* ------------------------------------------------------------------------
Query(ids_ok, descriptions) == [ids_ok |-> ids_ok, descriptions |-> descriptions]

QueryFailures == {Query(FALSE, None), Query(TRUE, None)}

QueryOutcomes == QueryFailures \cup {Query(TRUE, Some(raw)) : raw \in Enumerations}

QuerySucceeded(q) == q.ids_ok /\ q.descriptions # None

\* ------------------------------------------------------------------------
\* MockWindowProvider
\* ------------------------------------------------------------------------
MockInfo(id, title, app_name) ==
    [id |-> id, title |-> title, app_name |-> app_name,
     is_title_fallback |-> FALSE, thumbnail |-> None]

\* MockWindowProvider::list: the same four windows on every call
MockList ==
    <<MockInfo(<<"1">>,
               <<"M", "o", "c", "k", " ", "W", "i", "n", "d", "o", "w", " ", "-", " ", "c", "o", "d", "e", " ", "e", "d", "i", "t", "o", "r">>,
               <<"V", "S", " ", "C", "o", "d", "e">>),
      MockInfo(<<"2">>,
               <<"M", "o", "c", "k", " ", "W", "i", "n", "d", "o", "w", " ", "-", " ", "p", "r", "o", "d", "u", "c", "t", " ", "s", "p", "e", "c", "s">>,
               <<"N", "o", "t", "i", "o", "n">>),
      MockInfo(<<"3">>,
               <<"M", "o", "c", "k", " ", "W", "i", "n", "d", "o", "w", " ", "-", " ", "d", "e", "s", "i", "g", "n", " ", "b", "o", "a", "r", "d">>,
               <<"F", "i", "g", "m", "a">>),
      MockInfo(<<"4">>,
               <<"M", "o", "c", "k", " ", "W", "i", "n", "d", "o", "w", " ", "-", " ", "b", "r", "o", "w", "s", "e", "r">>,
               <<"A", "r", "c">>)>>

\* MockWindowProvider::activate: Ok for every id
MockActivate(id) == "Ok"

\* ------------------------------------------------------------------------
\* State
\* ------------------------------------------------------------------------
VARIABLES
    provider,       \* build_provider: "mock" or "native", chosen once
    snapshot,       \* MacWindowProvider.snapshot, the cache behind the mutex
    snapLock,       \* the thread holding the snapshot mutex, or NoThread
    thr,            \* per thread: the command it runs and its position in it
    issued,         \* number of commands invoked so far
    overlayVisible, \* whether the "main" overlay window is shown
    generation,     \* REFRESH_GENERATION
    req,            \* per refresh request: the position of its spawned task
    events,         \* per refresh request: the events it emitted, in order
    lastEnum,       \* history: entries of the most recent successful OS query
    prevSnap,       \* history: the cache as the last refresh_snapshot found it
    targetSnap,     \* history: the cache the last refresh_snapshot installs
    listIn,         \* sequential list(): what the OS query returns
    listCapture,    \* sequential list(): the capture_thumbnails argument
    listOut,        \* sequential list(): Some(returned Vec<WindowInfo>), None before
    listThumbs      \* sequential list(): history, what the capture of each entry returned

sharedVars == <<provider, snapshot, snapLock, lastEnum, prevSnap, targetSnap>>

threadVars == <<thr, issued, overlayVisible>>

refreshVars == <<generation, req, events>>

listVars == <<listIn, listCapture, listOut, listThumbs>>

vars == <<sharedVars, threadVars, refreshVars, listVars>>

\* ------------------------------------------------------------------------
\* Threads
\* ------------------------------------------------------------------------
\* Bound on the number of commands the frontend invokes.
MaxCalls == 3

NoThread == <<"none", 0>>

\* the std::thread spawned by setup()
Warmup == <<"warmup", 0>>

\* the main thread, on which the synchronous commands list_windows and
\* activate_window run one after the other
MainThread == <<"main", 0>>

IpcThreads == {MainThread}

CallerThreads == {Warmup} \cup IpcThreads

\* Bound on the number of refresh_windows_async invocations.
MaxRefresh == 2

Generations == 1..MaxRefresh

\* the blocking task in which the refresh request of generation g lists
FetchThread(g) == <<"fetch", g>>

FetchThreads == {FetchThread(g) : g \in Generations}

Threads == CallerThreads \cup FetchThreads

\* What the window server reports while commands overlap: a Safari window
\* with a real title, and a Notes window without title and owner pid.
OsRecords ==
    {RawRecord(Some(1), Some(Safari), Some(Docs), Some(OtherPid), Some(0)),
     RawRecord(Some(2), Some(Notes), None, None, Some(0))}

OsEnumerations == {raw \in SeqsUpTo(OsRecords, Cardinality(OsRecords)) : DistinctNumbers(raw)}

OsQueryOutcomes == QueryFailures \cup {Query(TRUE, Some(raw)) : raw \in OsEnumerations}

\* what a capture returns while commands overlap: no image, or a wide one
OsCaptureOutcomes ==
    {Capture(None, TRUE, TRUE, TRUE),
     Capture(Some([width |-> 1000, height |-> 301]), TRUE, TRUE, TRUE)}

\* an id that no enumeration ever contains
MissingId == <<"9", "9">>

\* ids the frontend asks to activate
ActivateIds == {<<"1">>, <<"2">>, MissingId}

\* A thread's frame: the command (cmd), the position in it (pc), the arguments
\* (refresh, capture, id) and the locals of list (entries, idx, ret) and of
\* activate (entry, result).  History fields: lists counts the list() calls
\* of the running activate, steps the native activation calls it made, torn
\* whether a lookup saw the cache between clear and the last insert, before
\* the ids cached when list_windows was invoked, stale the ids cached before
\* the last list_windows(refresh = true) and absent from its result, prev
\* the id of the thread's previous activate when it was not found, outcome
\* what the OS calls of the running activation returned, returned what the
\* thread's last activate_window gave back to the frontend.
IdleFrame ==
    [cmd |-> "idle", pc |-> "idle", refresh |-> FALSE, capture |-> FALSE, id |-> <<>>,
     entries |-> <<>>, idx |-> 0, ret |-> None, entry |-> None, lists |-> 0,
     result |-> "none", steps |-> <<>>, torn |-> FALSE, before |-> {}, stale |-> None,
     prev |-> <<>>, outcome |-> None, returned |-> "none"]

\* the ids of a Vec<WindowInfo>
IdsOf(infos) == {infos[i].id : i \in 1..Len(infos)}

\* the frame of a thread entering provider.list(capture)
EnterList(f, capture) ==
    [f EXCEPT !.pc = "list_query", !.capture = capture, !.entries = <<>>, !.idx = 0,
              !.ret = None]

\* ------------------------------------------------------------------------
\* WindowProvider::list, step by step
\* ------------------------------------------------------------------------
\* ListResults with the entries whose capture failed left out
ListResults_DropFailed(entries, capture, thumbs) ==
    LET all == [i \in 1..Len(entries) |->
                   InfoOf(entries[i],
                          IF capture THEN capture_window_thumbnail(thumbs[i], MaxThumbnailWidth)
                                     ELSE None)]
    IN  IF capture THEN SelectSeq(all, LAMBDA w : w.thumbnail # None) ELSE all

\* third pass: the returned Vec<WindowInfo>, thumbs[i] being what the native
\* capture of entry i returns
ListResults(entries, capture, thumbs) ==
    [i \in 1..Len(entries) |->
        InfoOf(entries[i],
               IF capture THEN capture_window_thumbnail(thumbs[i], MaxThumbnailWidth)
                          ELSE None)]

\* the capture outcomes the third pass can meet, each capture returning one
\* of `outcomes`
ThumbChoices(entries, capture, outcomes) ==
    IF capture THEN [1..Len(entries) -> outcomes]
    ELSE {[i \in 1..Len(entries) |-> Capture(None, TRUE, TRUE, TRUE)]}

\* CanLock without the mutex: the cache is entered whoever holds it
CanLock_NoMutex(t) == TRUE

\* CanLock on a mutex that is never granted
CanLock_Never(t) == FALSE

\* self.snapshot.lock(): the mutex is free
CanLock(t) == snapLock = NoThread

\* the OS query and the first two passes.  A failed query returns Vec::new()
\* at once; the mock provider returns its fixed list.
ListQuery(t) ==
    /\ thr[t].pc = "list_query"
    /\ IF provider = "mock"
       THEN /\ thr' = [thr EXCEPT ![t].pc = "list_done", ![t].ret = Some(MockList)]
            /\ UNCHANGED lastEnum
       ELSE \E q \in OsQueryOutcomes :
              IF QuerySucceeded(q)
              THEN /\ thr' = [thr EXCEPT ![t].pc = "snap_lock",
                                         ![t].entries = BuildEntries(q.descriptions[1])]
                   /\ lastEnum' = BuildEntries(q.descriptions[1])
              ELSE /\ thr' = [thr EXCEPT ![t].pc = "list_done", ![t].ret = Some(<<>>)]
                   /\ UNCHANGED lastEnum
    /\ UNCHANGED <<provider, snapshot, snapLock, prevSnap, targetSnap>>
    /\ UNCHANGED <<issued, overlayVisible, refreshVars, listVars>>

\* refresh_snapshot: lock the mutex and clear the map
SnapBegin(t) ==
    /\ thr[t].pc = "snap_lock"
    /\ CanLock(t)
    /\ snapLock' = t
    /\ prevSnap' = snapshot
    /\ targetSnap' = SnapshotOf(thr[t].entries)
    /\ snapshot' = EmptyMap
    /\ thr' = [thr EXCEPT ![t].pc = "snap_insert", ![t].idx = 1]
    /\ UNCHANGED <<provider, lastEnum, issued, overlayVisible, refreshVars, listVars>>

\* refresh_snapshot: one iteration of the insert loop
SnapInsert(t) ==
    /\ thr[t].pc = "snap_insert"
    /\ thr[t].idx <= Len(thr[t].entries)
    /\ snapshot' = MapInsert(snapshot, thr[t].entries[thr[t].idx].id,
                             thr[t].entries[thr[t].idx])
    /\ thr' = [thr EXCEPT ![t].idx = @ + 1]
    /\ UNCHANGED <<provider, snapLock, lastEnum, prevSnap, targetSnap>>
    /\ UNCHANGED <<issued, overlayVisible, refreshVars, listVars>>

\* refresh_snapshot returns (the guard is dropped), then the third pass
\* builds the result
SnapEnd(t) ==
    /\ thr[t].pc = "snap_insert"
    /\ thr[t].idx > Len(thr[t].entries)
    /\ snapLock' = NoThread
    /\ \E thumbs \in ThumbChoices(thr[t].entries, thr[t].capture, OsCaptureOutcomes) :
          thr' = [thr EXCEPT ![t].pc = "list_done", ![t].entries = <<>>, ![t].idx = 0,
                             ![t].ret = Some(ListResults(thr[t].entries, thr[t].capture, thumbs))]
    /\ UNCHANGED <<provider, snapshot, lastEnum, prevSnap, targetSnap>>
    /\ UNCHANGED <<issued, overlayVisible, refreshVars, listVars>>

\* ------------------------------------------------------------------------
\* The commands list_windows and the warm-up thread
\* ------------------------------------------------------------------------
\* WindowProvider::clear_cache: a no-op for the mock provider, and
\* clear_title_cache, a no-op as well, for the native one
clear_cache(p, cache) == cache

OptionalBools == {None, Some(TRUE), Some(FALSE)}

\* a command that advances the refresh generation counter
GenerationAfterCommand_Bumped(counter) == counter + 1

\* REFRESH_GENERATION after list_windows, activate_window or
\* get_window_thumbnail was invoked: none of them refers to the counter
GenerationAfterCommand(counter) == counter

\* list_windows up to its call of service.list(capture)
ListWindowsCall(t, refresh_cache, capture_thumbnails) ==
    /\ thr[t].pc = "idle"
    /\ issued < MaxCalls
    /\ issued' = issued + 1
    /\ snapshot' = IF UnwrapOr(refresh_cache, FALSE) THEN clear_cache(provider, snapshot)
                                                     ELSE snapshot
    /\ thr' = [thr EXCEPT ![t] = EnterList([IdleFrame EXCEPT !.cmd = "list_windows",
                                                             !.refresh = UnwrapOr(refresh_cache, FALSE),
                                                             !.before = DOMAIN snapshot],
                                           UnwrapOr(capture_thumbnails, TRUE))]
    /\ generation' = GenerationAfterCommand(generation)
    /\ UNCHANGED <<provider, snapLock, lastEnum, prevSnap, targetSnap>>
    /\ UNCHANGED <<overlayVisible, req, events, listVars>>

\* list_windows returns the Vec to the frontend; the warm-up thread drops it
ListReturn(t) ==
    /\ thr[t].cmd \in {"list_windows", "warmup"}
    /\ thr[t].pc = "list_done"
    /\ thr' = [thr EXCEPT ![t] = [IdleFrame EXCEPT !.stale =
                                     IF thr[t].refresh
                                     THEN Some(thr[t].before \ IdsOf(thr[t].ret[1]))
                                     ELSE None]]
    /\ UNCHANGED <<sharedVars, issued, overlayVisible, refreshVars, listVars>>

\* ------------------------------------------------------------------------
\* WindowProvider::activate and the command activate_window
\* ------------------------------------------------------------------------
\* what the OS calls of one activation return: activateWithOptions, the exit
\* of `open -a`, and the accessibility calls of activate_window_by_title (a
\* window containing the title was raised, an AX call failed, or no window
\* contains the title)
ActivationOutcomes ==
    [pid_ok : BOOLEAN, open : {"success", "failure", "spawn_error"},
     raise : {"raised", "ax_error", "no_match"}]

\* activate_app: the result and the processes it ran
activate_app(app_name, open) ==
    IF IsEmpty(app_name) THEN [ok |-> FALSE, calls |-> <<"activate_app">>]
    ELSE IF open = "spawn_error" THEN [ok |-> FALSE, calls |-> <<"activate_app", "open">>]
    ELSE [ok |-> open = "success", calls |-> <<"activate_app", "open", "osascript">>]

\* activate_window_by_title: Ok(()) when a window was raised
activate_window_by_title(raise) == IF raise = "raised" THEN "Ok" ELSE "Err"

\* AppActivated with the result of activate_via_pid ignored
AppActivated_Never(entry, o) == FALSE

\* app_activated: activate_via_pid(pid).is_ok() when the pid is known
AppActivated(entry, o) == entry.owner_pid # None /\ o.pid_ok

\* RaiseAttempted for every entry with a known pid
RaiseAttempted_WheneverPid(entry) == entry.owner_pid # None

\* the guard of the raise step: a real title and a known pid
RaiseAttempted(entry) == ~entry.is_title_fallback /\ entry.owner_pid # None

\* AfterRaise with the error of the raise step returned
AfterRaise_Propagate(raised) == IF raised = "Ok" THEN "Ok" ELSE "ActivationError"

\* an Err of the raise step is printed; activate ends with Ok(())
AfterRaise(raised) == "Ok"

\* activate from the resolved entry on: the result and the native calls made
Activation(entry, o) ==
    LET has_pid       == entry.owner_pid # None
        app_activated == AppActivated(entry, o)
        first         == IF has_pid THEN <<"activate_via_pid">> ELSE <<>>
        by_name       == activate_app(entry.app_name, o.open)
        second        == IF app_activated THEN first ELSE first \o by_name.calls
    IN  IF ~app_activated /\ ~by_name.ok
        THEN [result |-> "ActivationError", steps |-> second]
        ELSE IF RaiseAttempted(entry)
             THEN [result |-> AfterRaise(activate_window_by_title(o.raise)),
                   steps  |-> second \o <<"activate_window_by_title">>]
             ELSE [result |-> "Ok", steps |-> second]

\* RelistOnMiss with the closure run after every lookup
RelistOnMiss_Always(found) == TRUE

\* RelistOnMiss without the retry: a miss is final
RelistOnMiss_Never(found) == FALSE

\* the or_else closure of activate runs when the first lookup found nothing
RelistOnMiss(found) == found = None

\* the frame once a lookup has returned Some(entry)
Resolved(f, found) == [f EXCEPT !.pc = "resolved", !.entry = found]

\* activate_window calls service.activate(&id)
ActivateCall(t, id) ==
    /\ thr[t].pc = "idle"
    /\ issued < MaxCalls
    /\ issued' = issued + 1
    /\ thr' = [thr EXCEPT ![t] = [IdleFrame EXCEPT !.cmd = "activate_window", !.pc = "find1",
                                                   !.id = id, !.prev = thr[t].prev,
                                                   !.stale = thr[t].stale]]
    /\ generation' = GenerationAfterCommand(generation)
    /\ UNCHANGED <<sharedVars, overlayVisible, req, events, listVars>>

\* MockWindowProvider::activate
ActivateMock(t) ==
    /\ provider = "mock"
    /\ thr[t].pc = "find1"
    /\ thr' = [thr EXCEPT ![t].pc = "act_done", ![t].result = MockActivate(thr[t].id)]
    /\ UNCHANGED <<sharedVars, issued, overlayVisible, refreshVars, listVars>>

\* self.find_entry(id) on the cached snapshot
FindEntry1(t) ==
    /\ provider = "native"
    /\ thr[t].pc = "find1"
    /\ CanLock(t)
    /\ LET found == MapGet(snapshot, thr[t].id)
           seen  == [thr[t] EXCEPT !.torn = snapshot \notin {prevSnap, targetSnap}]
       IN  thr' = [thr EXCEPT ![t] =
                      IF RelistOnMiss(found)
                      THEN EnterList([seen EXCEPT !.lists = @ + 1], FALSE)
                      ELSE IF found = None
                           THEN [seen EXCEPT !.pc = "act_done", !.result = "NotFound"]
                           ELSE Resolved(seen, found)]
    /\ UNCHANGED <<sharedVars, issued, overlayVisible, refreshVars, listVars>>

\* self.find_entry(id) after the list(false) of the closure
FindEntry2(t) ==
    /\ thr[t].cmd = "activate_window"
    /\ thr[t].pc = "list_done"
    /\ CanLock(t)
    /\ LET found == MapGet(snapshot, thr[t].id)
           seen  == [thr[t] EXCEPT !.torn = @ \/ snapshot \notin {prevSnap, targetSnap}]
       IN  thr' = [thr EXCEPT ![t] =
                      IF found = None
                      THEN [seen EXCEPT !.pc = "act_done", !.result = "NotFound"]
                      ELSE Resolved(seen, found)]
    /\ UNCHANGED <<sharedVars, issued, overlayVisible, refreshVars, listVars>>

\* the activation strategy on the resolved entry
ActivateEntry(t) ==
    /\ thr[t].pc = "resolved"
    /\ \E o \in ActivationOutcomes :
          thr' = [thr EXCEPT ![t].pc = "act_done",
                             ![t].result = Activation(thr[t].entry[1], o).result,
                             ![t].steps = Activation(thr[t].entry[1], o).steps,
                             ![t].outcome = Some(o)]
    /\ UNCHANGED <<sharedVars, issued, overlayVisible, refreshVars, listVars>>

\* an activate_window that hides the overlay whatever activate returned
OverlayAfterActivate_AlwaysHidden(result, visible) == FALSE

\* `service.activate(&id)?` leaves the command on Err, before window.hide()
OverlayAfterActivate(result, visible) == IF result = "Ok" THEN FALSE ELSE visible

\* activate_window after service.activate(&id)?: hide the overlay on Ok
ActivateReturn(t) ==
    /\ thr[t].pc = "act_done"
    /\ overlayVisible' = OverlayAfterActivate(thr[t].result, overlayVisible)
    /\ thr' = [thr EXCEPT ![t] = [IdleFrame EXCEPT !.prev = IF thr[t].result = "NotFound"
                                                           THEN thr[t].id ELSE <<>>,
                                                   !.returned = thr[t].result]]
    /\ UNCHANGED <<sharedVars, issued, refreshVars, listVars>>

\* the ids get_window_thumbnail is invoked with: ids of windows, an id of no
\* window, and a string that is not a number
ThumbnailIds == ActivateIds \cup {<<"x">>}

\* get_window_thumbnail: window_id.parse::<i64>().ok()?, then
\* capture_window_thumbnail(id, 500) in the macOS build, None in the others
GetWindowThumbnail(t, window_id) ==
    /\ thr[t].pc = "idle"
    /\ issued < MaxCalls
    /\ issued' = issued + 1
    /\ \E outcome \in OsCaptureOutcomes :
          thr' = [thr EXCEPT ![t] =
                     [IdleFrame EXCEPT !.cmd = "get_window_thumbnail", !.pc = "thumb_done",
                                       !.id = window_id,
                                       !.ret = IF provider = "native" /\ ParseI64(window_id) # None
                                               THEN capture_window_thumbnail(outcome, MaxThumbnailWidth)
                                               ELSE None]]
    /\ generation' = GenerationAfterCommand(generation)
    /\ UNCHANGED <<sharedVars, overlayVisible, req, events, listVars>>

\* get_window_thumbnail returns the Option<String> to the frontend
ThumbnailReturn(t) ==
    /\ thr[t].pc = "thumb_done"
    /\ thr' = [thr EXCEPT ![t] = IdleFrame]
    /\ UNCHANGED <<sharedVars, issued, overlayVisible, refreshVars, listVars>>

\* toggle_overlay, run by the global shortcut
ToggleOverlay ==
    /\ overlayVisible' = ~overlayVisible
    /\ UNCHANGED <<sharedVars, thr, issued, refreshVars, listVars>>

\* ------------------------------------------------------------------------
\* refresh_windows_async
\* ------------------------------------------------------------------------
\* A refresh request: the position of its spawned task (pc), the fetched
\* windows, and its capture tasks, one per window whose id parses.  History
\* fields: final is what the last generation check found, captures counts
\* the refresh_windows_async calls that captured this generation, stale is
\* the checkpoint ("start", "fetched") at which the counter differed.
NoRequest ==
    [pc |-> "none", windows |-> <<>>, tasks |-> <<>>, final |-> "none", captures |-> 0,
     stale |-> "none"]

\* a capture task: captured says that capture_window_thumbnail was called,
\* stale is the checkpoint ("start", "emit") at which the counter differed
NewTask(id) ==
    [id |-> id, pc |-> "start", thumbnail |-> None, captured |-> FALSE, stale |-> "none"]

\* an emitted event; current records whether the generation counter was the
\* request's own at the moment of the emit
Event(name, payload, g) ==
    [name |-> name, payload |-> payload, current |-> generation = g]

\* history of a checkpoint: the name of the checkpoint when the counter is
\* not the request's generation at that moment, the old value otherwise
StaleAt(g, old, checkpoint) == IF generation = g THEN old ELSE checkpoint

\* a check that lets a request pass when the counter is at or above its
\* generation
StillCurrent_NotOlder(g) == generation >= g

\* a check that takes every request for the current one
StillCurrent_Always(g) == TRUE

\* REFRESH_GENERATION.load(SeqCst) == current_gen
StillCurrent(g) == generation = g

\* a plain load in the place of the fetch_add: the counter is not stored
fetch_add_NoStore(counter, n) == [value |-> counter, previous |-> counter]

\* AtomicU64::fetch_add(n, SeqCst): one atomic step that stores counter + n
\* and returns the previous value
fetch_add(counter, n) == [value |-> counter + n, previous |-> counter]

\* the command: fetch_add(1) + 1 is captured, the task is spawned, Ok(())
RefreshCall ==
    /\ generation < MaxRefresh
    /\ LET fetched == fetch_add(generation, 1)
           current_gen == fetched.previous + 1
       IN  /\ generation' = fetched.value
           /\ req' = [req EXCEPT ![current_gen].pc = "spawned",
                                 ![current_gen].captures = @ + 1]
    /\ UNCHANGED <<sharedVars, threadVars, events, listVars>>

\* the spawned task: first check, then spawn_blocking(provider.list(false))
RefreshStart(g) ==
    /\ req[g].pc = "spawned"
    /\ IF StillCurrent(g)
       THEN /\ req' = [req EXCEPT ![g].pc = "fetching",
                                  ![g].stale = StaleAt(g, @, "start")]
            /\ thr' = [thr EXCEPT ![FetchThread(g)] =
                           EnterList([IdleFrame EXCEPT !.cmd = "refresh_fetch"], FALSE)]
       ELSE /\ req' = [req EXCEPT ![g].pc = "done",
                                  ![g].stale = StaleAt(g, @, "start")]
            /\ UNCHANGED thr
    /\ UNCHANGED <<sharedVars, issued, overlayVisible, generation, events, listVars>>

\* the await of the list returns (unwrap_or_default), second check
RefreshFetched(g) ==
    /\ req[g].pc = "fetching"
    /\ thr[FetchThread(g)].pc = "list_done"
    /\ thr' = [thr EXCEPT ![FetchThread(g)] = IdleFrame]
    /\ req' = [req EXCEPT ![g].pc = IF StillCurrent(g) THEN "emit_list" ELSE "done",
                          ![g].windows = thr[FetchThread(g)].ret[1],
                          ![g].stale = StaleAt(g, @, "fetched")]
    /\ UNCHANGED <<sharedVars, issued, overlayVisible, generation, events, listVars>>

\* two capture tasks for every window
Capturable_Doubled(windows) == windows \o windows

\* the windows for which a capture task is spawned: those whose id parses
Capturable(windows) == SelectSeq(windows, LAMBDA w : ParseI64(w.id) # None)

\* app.emit("windows:list", &windows), then the capture tasks are spawned
RefreshEmitList(g) ==
    /\ req[g].pc = "emit_list"
    /\ events' = [events EXCEPT ![g] = Append(@, Event("windows:list", req[g].windows, g))]
    /\ req' = [req EXCEPT ![g].pc = "joining",
                          ![g].tasks = [i \in 1..Len(Capturable(req[g].windows)) |->
                                           NewTask(Capturable(req[g].windows)[i].id)]]
    /\ UNCHANGED <<sharedVars, threadVars, generation, listVars>>

\* a capture task: check, then capture_window_thumbnail(window_id, 500),
\* which exists in the macOS build only
TaskCapture(g, i) ==
    /\ i \in 1..Len(req[g].tasks)
    /\ req[g].tasks[i].pc = "start"
    /\ IF StillCurrent(g) /\ provider = "native"
       THEN \E outcome \in OsCaptureOutcomes :
              LET thumbnail == capture_window_thumbnail(outcome, MaxThumbnailWidth)
              IN  req' = [req EXCEPT ![g].tasks[i].captured = TRUE,
                                     ![g].tasks[i].stale = StaleAt(g, @, "start"),
                                     ![g].tasks[i].thumbnail = thumbnail,
                                     ![g].tasks[i].pc = IF thumbnail = None THEN "done"
                                                                           ELSE "captured"]
       ELSE req' = [req EXCEPT ![g].tasks[i].pc = "done",
                              ![g].tasks[i].stale = StaleAt(g, @, "start")]
    /\ UNCHANGED <<sharedVars, threadVars, generation, events, listVars>>

\* a capture task: the check before emitting
TaskCheck(g, i) ==
    /\ i \in 1..Len(req[g].tasks)
    /\ req[g].tasks[i].pc = "captured"
    /\ req' = [req EXCEPT ![g].tasks[i].pc = IF StillCurrent(g) THEN "emit" ELSE "done",
                          ![g].tasks[i].stale = StaleAt(g, @, "emit")]
    /\ UNCHANGED <<sharedVars, threadVars, generation, events, listVars>>

\* a capture task: app_clone.emit("window:thumbnail", payload)
TaskEmit(g, i) ==
    /\ i \in 1..Len(req[g].tasks)
    /\ req[g].tasks[i].pc = "emit"
    /\ events' = [events EXCEPT ![g] =
                      Append(@, Event("window:thumbnail",
                                      [id |-> req[g].tasks[i].id,
                                       thumbnail |-> req[g].tasks[i].thumbnail[1]], g))]
    /\ req' = [req EXCEPT ![g].tasks[i].pc = "done"]
    /\ UNCHANGED <<sharedVars, threadVars, generation, listVars>>

\* AllTasksDone without awaiting the capture tasks
AllTasksDone_NoJoin(g) == TRUE

\* `for task in tasks { task.await }` has returned
AllTasksDone(g) == \A i \in 1..Len(req[g].tasks) : req[g].tasks[i].pc = "done"

\* every task has been awaited: the final check
RefreshJoin(g) ==
    /\ req[g].pc = "joining"
    /\ AllTasksDone(g)
    /\ req' = [req EXCEPT ![g].pc = IF StillCurrent(g) THEN "emit_complete" ELSE "done",
                          ![g].final = IF generation = g THEN "current" ELSE "stale"]
    /\ UNCHANGED <<sharedVars, threadVars, generation, events, listVars>>

\* app.emit("windows:thumbnails-complete", ())
RefreshEmitComplete(g) ==
    /\ req[g].pc = "emit_complete"
    /\ events' = [events EXCEPT ![g] = Append(@, Event("windows:thumbnails-complete", <<>>, g))]
    /\ req' = [req EXCEPT ![g].pc = "done"]
    /\ UNCHANGED <<sharedVars, threadVars, generation, listVars>>

\* ------------------------------------------------------------------------
\* Specification of the provider under the commands of the frontend
\* ------------------------------------------------------------------------
\* run(): the provider is built, the cache is empty, the warm-up thread is
\* about to call provider.list(false)
Init ==
    /\ provider \in {"mock", "native"}
    /\ snapshot = EmptyMap
    /\ snapLock = NoThread
    /\ thr = [t \in Threads |->
                IF t = Warmup THEN EnterList([IdleFrame EXCEPT !.cmd = "warmup"], FALSE)
                              ELSE IdleFrame]
    /\ issued = 0
    /\ overlayVisible = FALSE
    /\ generation = 0
    /\ req = [g \in Generations |-> NoRequest]
    /\ events = [g \in Generations |-> <<>>]
    /\ lastEnum = <<>>
    /\ prevSnap = EmptyMap
    /\ targetSnap = EmptyMap
    /\ listIn = None
    /\ listCapture = FALSE
    /\ listOut = None
    /\ listThumbs = <<>>

Next ==
    \/ \E t \in CallerThreads : ListQuery(t)
    \/ \E t \in CallerThreads : SnapBegin(t)
    \/ \E t \in CallerThreads : SnapInsert(t)
    \/ \E t \in CallerThreads : SnapEnd(t)
    \/ \E t \in IpcThreads, r \in OptionalBools, c \in OptionalBools : ListWindowsCall(t, r, c)
    \/ \E t \in CallerThreads : ListReturn(t)
    \/ \E t \in IpcThreads, id \in ActivateIds : ActivateCall(t, id)
    \/ \E t \in IpcThreads : ActivateMock(t)
    \/ \E t \in IpcThreads : FindEntry1(t)
    \/ \E t \in IpcThreads : FindEntry2(t)
    \/ \E t \in IpcThreads : ActivateEntry(t)
    \/ \E t \in IpcThreads : ActivateReturn(t)
    \/ ToggleOverlay

Spec == Init /\ [][Next]_vars

\* ------------------------------------------------------------------------
\* Properties of the provider
\* ------------------------------------------------------------------------
\* a list() call is between its OS query and the end of its refresh_snapshot
Listing(t) == thr[t].pc \in {"snap_lock", "snap_insert"}

\* C2: whenever no list() call is under way, the snapshot cache holds exactly
\* the entries of the most recent successful enumeration, however the list()
\* calls before overlapped: no older enumeration has overwritten a newer one
\* and no two have been merged.
C2_SnapshotIsMostRecentEnumeration ==
    (\A t \in Threads : ~Listing(t)) => snapshot = SnapshotOf(lastEnum)

\* C3: every find_entry lookup sees the snapshot as it was before the running
\* refresh_snapshot or as that call leaves it, never the cache between the
\* clear and the last insert.
C3_LookupSeesWholeSnapshot == \A t \in Threads : ~thr[t].torn

\* C3 witness: a lookup is pending while another thread holds the cache
\* cleared and only partly filled.
C3_LookupDuringReplacement ==
    \E w \in Threads, r \in Threads :
        /\ snapLock = w
        /\ thr[w].pc = "snap_insert"
        /\ snapshot \notin {prevSnap, targetSnap}
        /\ thr[r].pc = "find1"

\* C6: on the native provider an activate of an id that is in no enumeration
\* makes exactly one list(false) call and returns not-found, also when the
\* previous activate of that id was not found; no activate lists twice, and
\* none returns not-found without having listed once.
C6_MissingIdRelistsOnce ==
    provider = "native" =>
        \A t \in Threads :
            /\ thr[t].lists <= 1
            /\ thr[t].pc = "act_done" =>
                  /\ thr[t].id = MissingId => (thr[t].lists = 1 /\ thr[t].result = "NotFound")
                  /\ thr[t].result = "NotFound" => thr[t].lists = 1

\* C6 witness: the second activate in a row of the missing id has returned
\* not-found after one list(false).
C6_SecondMissingActivate ==
    \E t \in Threads :
        /\ provider = "native"
        /\ thr[t].pc = "act_done"
        /\ thr[t].id = MissingId
        /\ thr[t].prev = MissingId
        /\ thr[t].lists = 1
        /\ thr[t].result = "NotFound"

\* C7: on either provider, activate of an id that no list() returns ends in
\* the not-found error.
C7_UnknownIdIsNotFound ==
    \A t \in Threads :
        (thr[t].pc = "act_done" /\ thr[t].id = MissingId) => thr[t].result = "NotFound"

\* C8: the activate that follows list_windows(refresh = true) does not resolve
\* from the cache an id that was cached before that command and is absent from
\* its enumeration, whether the enumeration succeeded or failed.
C8_NoLeakAfterRefresh ==
    \A t \in Threads :
        (thr[t].pc = "resolved" /\ thr[t].lists = 0 /\ thr[t].stale # None)
            => thr[t].id \notin thr[t].stale[1]

\* C9: when clear_cache of the native provider returns (list_windows with
\* refresh_cache = true calls it first, here while no refresh_snapshot is
\* under way), the snapshot cache holds no entry that an activate could
\* resolve.
C9_ClearCacheEmptiesSnapshot ==
    [][(/\ provider = "native"
        /\ snapLock = NoThread
        /\ \E t \in IpcThreads, c \in OptionalBools : ListWindowsCall(t, Some(TRUE), c))
          => snapshot' = EmptyMap]_vars

\* ------------------------------------------------------------------------
\* list() run alone: one call on one OS answer
\* ------------------------------------------------------------------------
\* a cache left by an earlier list() call
PriorSnapshot ==
    SnapshotOf(BuildEntries(<<RawRecord(Some(10), Some(Safari), Some(Docs), None, Some(0))>>))

InitList ==
    /\ provider \in {"mock", "native"}
    /\ snapshot \in (IF provider = "native" THEN {EmptyMap, PriorSnapshot} ELSE {EmptyMap})
    /\ snapLock = NoThread
    /\ thr = [t \in Threads |-> IdleFrame]
    /\ issued = 0
    /\ overlayVisible = FALSE
    /\ generation = 0
    /\ req = [g \in Generations |-> NoRequest]
    /\ events = [g \in Generations |-> <<>>]
    /\ lastEnum = <<>>
    /\ prevSnap = EmptyMap
    /\ targetSnap = EmptyMap
    /\ listIn \in (IF provider = "native" THEN QueryOutcomes ELSE {Query(FALSE, None)})
    /\ listCapture \in BOOLEAN
    /\ listOut = None
    /\ listThumbs = <<>>

\* a failed query that empties the cache
AfterFailedQuery_Cleared(cache) == EmptyMap

\* the cache after `return Vec::new()` of a failed query: refresh_snapshot
\* is not reached
AfterFailedQuery(cache) == cache

\* MacWindowProvider::list(listCapture) on the OS answer listIn
MacList ==
    /\ provider = "native"
    /\ listOut = None
    /\ IF QuerySucceeded(listIn)
       THEN LET entries == BuildEntries(listIn.descriptions[1])
            IN  /\ snapshot' = refresh_snapshot(snapshot, entries)
                /\ lastEnum' = entries
                /\ prevSnap' = snapshot
                /\ targetSnap' = SnapshotOf(entries)
                /\ \E thumbs \in ThumbChoices(entries, listCapture, CaptureOutcomes) :
                      /\ listOut' = Some(ListResults(entries, listCapture, thumbs))
                      /\ listThumbs' = IF listCapture THEN thumbs ELSE <<>>
       ELSE /\ listOut' = Some(<<>>)
            /\ snapshot' = AfterFailedQuery(snapshot)
            /\ UNCHANGED <<lastEnum, prevSnap, targetSnap, listThumbs>>
    /\ UNCHANGED <<provider, snapLock, threadVars, refreshVars, listIn, listCapture>>

\* MockWindowProvider::list(listCapture)
MockListCall ==
    /\ provider = "mock"
    /\ listOut = None
    /\ listOut' = Some(MockList)
    /\ UNCHANGED <<sharedVars, threadVars, refreshVars, listIn, listCapture, listThumbs>>

NextList == MacList \/ MockListCall

SpecList == InitList /\ [][NextList]_vars

\* the entries of the cache
Cached == {snapshot[k] : k \in DOMAIN snapshot}

C5_FallbackIffTitleIsAppName ==
    /\ listOut # None =>
          \A i \in 1..Len(listOut[1]) :
              listOut[1][i].is_title_fallback <=> (listOut[1][i].title = listOut[1][i].app_name)
    /\ \A e \in Cached : e.is_title_fallback <=> (e.title = e.app_name)

\* the records of an enumeration that pass the filters, in order
KeptRecords(descriptions) == SelectSeq(descriptions, Kept)

\* C5 amended: for every returned and every cached entry, is_title_fallback
\* implies title = app_name; an entry with title = app_name and
\* is_title_fallback false comes from a record whose own title is the name
\* of its application.
C5_FallbackImpliesTitleIsAppName ==
    /\ listOut # None =>
          \A i \in 1..Len(listOut[1]) :
              /\ listOut[1][i].is_title_fallback => listOut[1][i].title = listOut[1][i].app_name
              /\ (provider = "native" /\ listOut[1][i].title = listOut[1][i].app_name
                     /\ ~listOut[1][i].is_title_fallback)
                    => KeptRecords(listIn.descriptions[1])[i].name = Some(listOut[1][i].app_name)
    /\ \A e \in Cached : e.is_title_fallback => e.title = e.app_name

\* C5 witness: one list() has returned an entry with a fallback title and an
\* entry whose real title equals its application name, and cached both.
C5_FallbackAndSameTitleListed ==
    /\ listOut # None
    /\ \E i, j \in 1..Len(listOut[1]) :
          /\ listOut[1][i].is_title_fallback
          /\ ~listOut[1][j].is_title_fallback
          /\ listOut[1][j].title = listOut[1][j].app_name
          /\ {listOut[1][i].id, listOut[1][j].id} \subseteq DOMAIN snapshot

\* ------------------------------------------------------------------------
\* Specification of the refresh coordinator
\* ------------------------------------------------------------------------
\* the native provider with an empty cache; the frontend invokes
\* refresh_windows_async up to MaxRefresh times
InitRefresh ==
    /\ provider = "native"
    /\ snapshot = EmptyMap
    /\ snapLock = NoThread
    /\ thr = [t \in Threads |-> IdleFrame]
    /\ issued = 0
    /\ overlayVisible = FALSE
    /\ generation = 0
    /\ req = [g \in Generations |-> NoRequest]
    /\ events = [g \in Generations |-> <<>>]
    /\ lastEnum = <<>>
    /\ prevSnap = EmptyMap
    /\ targetSnap = EmptyMap
    /\ listIn = None
    /\ listCapture = FALSE
    /\ listOut = None
    /\ listThumbs = <<>>

\* the steps of the task spawned for generation g
RequestStep(g) ==
    \/ RefreshStart(g)
    \/ ListQuery(FetchThread(g))
    \/ SnapBegin(FetchThread(g))
    \/ SnapInsert(FetchThread(g))
    \/ SnapEnd(FetchThread(g))
    \/ RefreshFetched(g)
    \/ RefreshEmitList(g)
    \/ \E i \in 1..Cardinality(OsRecords) : TaskCapture(g, i)
    \/ \E i \in 1..Cardinality(OsRecords) : TaskCheck(g, i)
    \/ \E i \in 1..Cardinality(OsRecords) : TaskEmit(g, i)
    \/ RefreshJoin(g)
    \/ RefreshEmitComplete(g)

NextRefresh ==
    \/ RefreshCall
    \/ \E g \in Generations : RequestStep(g)

SpecRefresh == InitRefresh /\ [][NextRefresh]_vars

\* the runtime runs every spawned task that can take a step
SpecRefreshLive == SpecRefresh /\ \A g \in Generations : WF_vars(RequestStep(g))

\* ------------------------------------------------------------------------
\* Properties of the refresh coordinator
\* ------------------------------------------------------------------------
\* C1: no event of a refresh request (windows:list, window:thumbnail,
\* windows:thumbnails-complete) is emitted after a later request has
\* incremented the generation counter: at every emit of request g the
\* counter is still g.
C1_NoEventAfterLaterRequest ==
    \A g \in Generations : \A k \in 1..Len(events[g]) : events[g][k].current

\* the windows:thumbnails-complete events request g has emitted
Completions(g) ==
    Len(SelectSeq(events[g], LAMBDA e : e.name = "windows:thumbnails-complete"))

\* C10: a request whose generation is current once its fetch and all of its
\* capture tasks have finished emits exactly one windows:thumbnails-complete
\* unless a later request is issued; it never emits two; and a request that
\* is not current at its final check, or never reaches it, emits none.
C10_CompletionIffCurrentAtFinalCheck ==
    /\ \A g \in Generations :
         (req[g].pc = "joining" /\ AllTasksDone(g) /\ generation = g)
             ~> (Completions(g) = 1 \/ generation # g)
    /\ [](\A g \in Generations :
            /\ Completions(g) <= 1
            /\ req[g].final # "current" => Completions(g) = 0
            /\ (req[g].pc = "done" /\ req[g].final = "current") => Completions(g) = 1)

\* C10 witness: one request was found stale at its final check and ended
\* without a completion, the other joined its capture tasks and emitted one.
C10_OneCompletedOneStale ==
    \E g1, g2 \in Generations :
        /\ req[g1].pc = "done" /\ req[g1].final = "stale" /\ Completions(g1) = 0
        /\ req[g2].pc = "done" /\ req[g2].final = "current" /\ Completions(g2) = 1
        /\ Len(req[g2].tasks) > 0

\* C11: every replacement of the snapshot cache made by the list(false) of a
\* refresh request starts while the generation counter still equals the
\* generation that request captured: a superseded request never replaces
\* the cache.
C11_SupersededRequestNeverWritesCache ==
    [][\A g \in Generations : SnapBegin(FetchThread(g)) => generation = g]_vars

\* ------------------------------------------------------------------------
\* activate on a cached entry: one activate_window call on one cache
\* ------------------------------------------------------------------------
\* the entries a list() can leave in the cache
ResolvableEntries == {BuildEntries(<<r>>)[1] : r \in {x \in RawRecords : Kept(x)}}

\* an earlier list() cached one entry and closed; activate_window has been
\* invoked with the id of that entry
InitActivate ==
    /\ provider = "native"
    /\ \E e \in ResolvableEntries :
          /\ snapshot = SnapshotOf(<<e>>)
          /\ lastEnum = <<e>>
          /\ targetSnap = SnapshotOf(<<e>>)
          /\ thr = [t \in Threads |->
                       IF t = MainThread
                       THEN [IdleFrame EXCEPT !.cmd = "activate_window", !.pc = "find1",
                                              !.id = e.id]
                       ELSE IdleFrame]
    /\ snapLock = NoThread
    /\ issued = 1
    /\ overlayVisible \in BOOLEAN
    /\ generation = 0
    /\ req = [g \in Generations |-> NoRequest]
    /\ events = [g \in Generations |-> <<>>]
    /\ prevSnap = EmptyMap
    /\ listIn = None
    /\ listCapture = FALSE
    /\ listOut = None
    /\ listThumbs = <<>>

NextActivate ==
    \/ FindEntry1(MainThread)
    \/ ActivateEntry(MainThread)
    \/ ActivateReturn(MainThread)

SpecActivate == InitActivate /\ [][NextActivate]_vars

\* how often a native call was made by an activation
Calls(steps, name) == Len(SelectSeq(steps, LAMBDA x : x = name))

\* a native activate has run its strategy on a resolved entry
Activated(t) == thr[t].pc = "act_done" /\ thr[t].entry # None /\ thr[t].outcome # None

\* process-level activation was tried and succeeded
PidActivationSucceeded(t) ==
    thr[t].entry[1].owner_pid # None /\ thr[t].outcome[1].pid_ok

\* application-level activation succeeded, by pid or by name
AppLevelSucceeded(t) ==
    PidActivationSucceeded(t) \/ thr[t].outcome[1].open = "success"

\* C12: when the owner pid is known and process-level activation succeeds,
\* activate_app is not called; when the pid is unknown or process-level
\* activation fails, activate_app is called exactly once, and if it fails
\* activate returns the activation error without calling
\* activate_window_by_title.
C12_NameFallbackOnlyAfterPidFailure ==
    \A t \in Threads :
        Activated(t) =>
            /\ PidActivationSucceeded(t) => Calls(thr[t].steps, "activate_app") = 0
            /\ ~PidActivationSucceeded(t) => Calls(thr[t].steps, "activate_app") = 1
            /\ (~PidActivationSucceeded(t) /\ thr[t].outcome[1].open # "success")
                  => /\ thr[t].result = "ActivationError"
                     /\ Calls(thr[t].steps, "activate_window_by_title") = 0

\* C12 witness: for an entry with a real title and a known pid, process-level
\* activation failed, activate_app was called once and failed, and activate
\* returned the activation error.
C12_BothActivationsFailed ==
    \E t \in Threads :
        /\ Activated(t)
        /\ thr[t].entry[1].owner_pid # None
        /\ ~thr[t].entry[1].is_title_fallback
        /\ ~thr[t].outcome[1].pid_ok
        /\ thr[t].outcome[1].open = "failure"
        /\ thr[t].steps = <<"activate_via_pid", "activate_app", "open", "osascript">>
        /\ thr[t].result = "ActivationError"

C14_RaiseFailureIsNotFatal ==
    \A t \in Threads :
        (Activated(t) /\ AppLevelSucceeded(t)) => thr[t].result = "Ok"

\* C14 witness: the raise step ran, found no matching window, and activate
\* returned Ok.
C14_NoMatchStillOk ==
    \E t \in Threads :
        /\ Activated(t)
        /\ AppLevelSucceeded(t)
        /\ Calls(thr[t].steps, "activate_window_by_title") = 1
        /\ thr[t].outcome[1].raise = "no_match"
        /\ thr[t].result = "Ok"

\* ------------------------------------------------------------------------
\* The provider under commands, with every running thread scheduled
\* ------------------------------------------------------------------------
\* the steps thread t takes inside a command once the command is invoked
ThreadStep(t) ==
    \/ ListQuery(t)
    \/ SnapBegin(t)
    \/ SnapInsert(t)
    \/ SnapEnd(t)
    \/ ListReturn(t)
    \/ ActivateMock(t)
    \/ FindEntry1(t)
    \/ FindEntry2(t)
    \/ ActivateEntry(t)
    \/ ActivateReturn(t)

\* one command of the frontend, of any kind, while the warm-up thread runs
NextOneCall ==
    \/ \E t \in CallerThreads : ListQuery(t)
    \/ \E t \in CallerThreads : SnapBegin(t)
    \/ \E t \in CallerThreads : SnapInsert(t)
    \/ \E t \in CallerThreads : SnapEnd(t)
    \/ \E t \in IpcThreads, r \in OptionalBools, c \in OptionalBools :
          issued = 0 /\ ListWindowsCall(t, r, c)
    \/ \E t \in CallerThreads : ListReturn(t)
    \/ \E t \in IpcThreads, id \in ActivateIds : issued = 0 /\ ActivateCall(t, id)
    \/ \E t \in IpcThreads : ActivateMock(t)
    \/ \E t \in IpcThreads : FindEntry1(t)
    \/ \E t \in IpcThreads : FindEntry2(t)
    \/ \E t \in IpcThreads : ActivateEntry(t)
    \/ \E t \in IpcThreads : ActivateReturn(t)
    \/ ToggleOverlay

\* the OS schedules every thread that can run; every native call returns
SpecLive ==
    Init /\ [][NextOneCall]_vars /\ \A t \in CallerThreads : WF_vars(ThreadStep(t))

\* the three terminal states of activate
TerminalResults == {"Ok", "NotFound", "ActivationError"}

Stripped(infos) ==
    [i \in 1..Len(infos) |->
        [id |-> infos[i].id, title |-> infos[i].title, app_name |-> infos[i].app_name,
         is_title_fallback |-> infos[i].is_title_fallback]]

\* what list(false) returns for an enumeration
WithoutThumbnails(descriptions) == ListResults(BuildEntries(descriptions), FALSE, <<>>)

\* one of the native calls of a capture failed, or the image is empty
CaptureFailed(o) ==
    \/ o.image = None
    \/ o.image # None /\ (o.image[1].width = 0 \/ o.image[1].height = 0)
    \/ ~o.context_ok
    \/ ~o.data_ok
    \/ ~o.encode_ok

\* C16: for one enumeration, list(true) returns the entries of list(false),
\* field by field and in the same order, whichever captures fail; the
\* thumbnail of an entry is none exactly when its own capture failed, and
\* list(false) returns no thumbnail at all.
C16_CaptureFailureOnlyDropsThumbnail ==
    (provider = "native" /\ listOut # None /\ QuerySucceeded(listIn)) =>
        /\ Stripped(listOut[1]) = Stripped(WithoutThumbnails(listIn.descriptions[1]))
        /\ listCapture =>
              \A i \in 1..Len(listOut[1]) :
                  (listOut[1][i].thumbnail = None) <=> CaptureFailed(listThumbs[i])
        /\ ~listCapture => \A i \in 1..Len(listOut[1]) : listOut[1][i].thumbnail = None

\* C16 witness: list(true) has returned two or more entries, one whose
\* capture failed and one whose capture succeeded.
C16_OneCaptureFailedOneSucceeded ==
    /\ provider = "native"
    /\ listCapture
    /\ listOut # None
    /\ \E i, j \in 1..Len(listOut[1]) :
          /\ CaptureFailed(listThumbs[i])
          /\ listOut[1][i].thumbnail = None
          /\ ~CaptureFailed(listThumbs[j])
          /\ listOut[1][j].thumbnail # None

\* round(height * 0.5), halves rounded up
HalfRounded(height) == (height + 1) \div 2

\* C17: the thumbnail of a captured image of width 1000 has width 500 and
\* height round(original height * 0.5); the thumbnail of an image of width
\* at most 500 has the width and height of the image.
C17_ScaledHeightIsRounded ==
    (provider = "native" /\ listOut # None /\ listCapture) =>
        \A i \in 1..Len(listOut[1]) :
            listOut[1][i].thumbnail # None =>
                LET image == listThumbs[i].image[1]
                    jpeg  == listOut[1][i].thumbnail[1].jpeg
                IN  /\ image.width = 1000 =>
                          jpeg = [width |-> 500, height |-> HalfRounded(image.height)]
                    /\ image.width <= 500 =>
                          jpeg = [width |-> image.width, height |-> image.height]

\* a string with a character that is not white space
NotBlank(str) == \E k \in 1..Len(str) : str[k] \notin Whitespace

\* a raw record carries a title: the value is present and not blank
HasNativeTitle(r) == r.name # None /\ NotBlank(r.name[1])

\* C18: for every raw record that passes the filters, if its native title is
\* present and not blank the entry has that title and is_title_fallback =
\* false; otherwise the title is the application name of the entry (the
\* owner name of the record when that is present and not blank) and
\* is_title_fallback = true.  The cached entry has the same three fields.
C18_TitleDerivation ==
    (provider = "native" /\ listOut # None /\ QuerySucceeded(listIn)) =>
        LET kept == KeptRecords(listIn.descriptions[1])
        IN  /\ Len(listOut[1]) = Len(kept)
            /\ \A i \in 1..Len(kept) :
                  LET w == listOut[1][i]
                  IN  /\ IF HasNativeTitle(kept[i])
                         THEN w.title = kept[i].name[1] /\ ~w.is_title_fallback
                         ELSE w.title = w.app_name /\ w.is_title_fallback
                      /\ (kept[i].owner # None /\ NotBlank(kept[i].owner[1]))
                            => w.app_name = kept[i].owner[1]
                      /\ w.id \in DOMAIN snapshot
                      /\ snapshot[w.id].title = w.title
                      /\ snapshot[w.id].app_name = w.app_name
                      /\ snapshot[w.id].is_title_fallback = w.is_title_fallback

\* C18 witness: list() has returned an entry for a record whose title is
\* present but blank, titled with the owner name, and an entry for a record
\* with a real title.
C18_BlankAndRealTitleListed ==
    /\ provider = "native"
    /\ listOut # None
    /\ QuerySucceeded(listIn)
    /\ \E i, j \in 1..Len(listOut[1]) :
          LET kept == KeptRecords(listIn.descriptions[1])
          IN  /\ kept[i].name # None
              /\ ~NotBlank(kept[i].name[1])
              /\ kept[i].owner = Some(Safari)
              /\ listOut[1][i].title = Safari
              /\ listOut[1][i].is_title_fallback
              /\ HasNativeTitle(kept[j])
              /\ listOut[1][j].title = Docs
              /\ ~listOut[1][j].is_title_fallback

\* the ids of raw records that have a window number, in order
IdsOfRecords(records) == [i \in 1..Len(records) |-> I64ToString(records[i].number[1])]

\* the ids of a Vec<WindowInfo>, in order
IdSeq(infos) == [i \in 1..Len(infos) |-> infos[i].id]

\* the set of the elements of a sequence
Range(seq) == {seq[i] : i \in 1..Len(seq)}

\* the filters as stated: a window number, another owner than the current
\* process, layer 0, another owner than "Control Center"
PassesStatedFilters(r) ==
    /\ r.number # None
    /\ r.pid # Some(CurrentPid)
    /\ r.layer = Some(0)
    /\ r.owner # Some(ControlCenter)

\* the same with a record without a layer value counted as layer 0
PassesFilters(r) ==
    /\ r.number # None
    /\ r.pid # Some(CurrentPid)
    /\ r.layer \in {None, Some(0)}
    /\ r.owner # Some(ControlCenter)

\* C19 as stated: the result of the native list() and the snapshot cache
\* hold exactly the records with a window number, not owned by the current
\* process, with layer 0 and not owned by "Control Center", in the order of
\* the enumeration.
C19_ExactlyStatedFilters ==
    (provider = "native" /\ listOut # None /\ QuerySucceeded(listIn)) =>
        /\ IdSeq(listOut[1]) = IdsOfRecords(SelectSeq(listIn.descriptions[1], PassesStatedFilters))
        /\ DOMAIN snapshot = Range(IdsOfRecords(SelectSeq(listIn.descriptions[1], PassesStatedFilters)))

\* C19 amended: the result of the native list() and the snapshot cache hold
\* exactly the records with a window number, not owned by the current
\* process, with layer 0 or without a layer value, and not owned by "Control
\* Center", in the order of the enumeration.
C19_ExactlyFiltersMissingLayerKept ==
    (provider = "native" /\ listOut # None /\ QuerySucceeded(listIn)) =>
        /\ IdSeq(listOut[1]) = IdsOfRecords(SelectSeq(listIn.descriptions[1], PassesFilters))
        /\ DOMAIN snapshot = Range(IdsOfRecords(SelectSeq(listIn.descriptions[1], PassesFilters)))
        /\ \A id \in DOMAIN snapshot : snapshot[id].id = id

\* C19 witness: of one enumeration, list() has dropped a record of "Control
\* Center" and a record of another layer and returned a record without a
\* layer value.
C19_DroppedAndMissingLayerKept ==
    /\ provider = "native"
    /\ listOut # None
    /\ QuerySucceeded(listIn)
    /\ \E i, j, k \in 1..Len(listIn.descriptions[1]) :
          LET raw == listIn.descriptions[1]
          IN  /\ raw[i].owner = Some(ControlCenter)
              /\ raw[j].layer = None /\ PassesFilters(raw[j])
              /\ raw[k].layer = Some(25)
              /\ IdSeq(listOut[1]) = <<I64ToString(raw[j].number[1])>>
              /\ DOMAIN snapshot = {I64ToString(raw[j].number[1])}

\* C20: the events of one refresh request are, in order, at most one
\* windows:list (whose entries carry no thumbnail), then window:thumbnail
\* events, then at most one windows:thumbnails-complete: the list event is
\* the first event, the completion event is the last and nothing follows it.
C20_EventOrder ==
    \A g \in Generations : \A k \in 1..Len(events[g]) :
        /\ events[g][1].name = "windows:list"
        /\ events[g][k].name = "windows:list" =>
              /\ k = 1
              /\ \A i \in 1..Len(events[g][k].payload) :
                    events[g][k].payload[i].thumbnail = None
        /\ events[g][k].name = "windows:thumbnails-complete" => k = Len(events[g])
        /\ events[g][k].name \in
              {"windows:list", "window:thumbnail", "windows:thumbnails-complete"}

\* C20 witness: a request has emitted its list event, a thumbnail event for
\* each of two windows, and its completion event.
C20_ListThumbnailsComplete ==
    \E g \in Generations :
        /\ Len(events[g]) = 4
        /\ events[g][1].name = "windows:list"
        /\ Len(events[g][1].payload) = 2
        /\ events[g][2].name = "window:thumbnail"
        /\ events[g][3].name = "window:thumbnail"
        /\ events[g][2].payload.id # events[g][3].payload.id
        /\ events[g][4].name = "windows:thumbnails-complete"

\* C21: the generation counter never decreases; a refresh_windows_async call
\* raises it by exactly 1 and captures the new value; no generation is
\* captured by two calls, and the counter equals the number of calls made.
C21_GenerationsAreUnique ==
    /\ [][generation' >= generation]_vars
    /\ [][RefreshCall =>
             /\ generation' = generation + 1
             /\ req'[generation'].captures = req[generation'].captures + 1
             /\ req'[generation'].pc = "spawned"
             /\ \A g \in Generations \ {generation'} : req'[g] = req[g]]_vars
    /\ [](\A g \in Generations :
             /\ req[g].captures <= 1
             /\ req[g].captures = IF g <= generation THEN 1 ELSE 0)

\* C21 witness: two requests are in flight at the same time, each with its
\* own captured generation.
C21_TwoConcurrentRequests ==
    /\ generation = 2
    /\ req[1].captures = 1 /\ req[1].pc = "fetching"
    /\ req[2].captures = 1 /\ req[2].pc = "spawned"

\* the window:thumbnail events of request g for window id
ThumbnailEvents(g, id) ==
    {k \in 1..Len(events[g]) :
        /\ events[g][k].name = "window:thumbnail"
        /\ events[g][k].payload.id = id}

\* C22: a request that found the counter different from its generation at a
\* checkpoint abandoned that unit of work.  Stale at the fetch start: no
\* enumeration was run and nothing was emitted.  Stale after the fetch: no
\* list event and no capture task.  A task stale at its start: no capture
\* and no thumbnail event.  A task stale before its emit: no thumbnail event.
C22_StaleCheckpointAbandons ==
    \A g \in Generations :
        /\ req[g].stale = "start" =>
              /\ req[g].pc = "done"
              /\ thr[FetchThread(g)] = IdleFrame
              /\ req[g].windows = <<>>
              /\ events[g] = <<>>
              /\ req[g].tasks = <<>>
        /\ req[g].stale = "fetched" =>
              /\ req[g].pc = "done"
              /\ events[g] = <<>>
              /\ req[g].tasks = <<>>
        /\ \A i \in 1..Len(req[g].tasks) :
              /\ req[g].tasks[i].stale = "start" =>
                    /\ req[g].tasks[i].pc = "done"
                    /\ ~req[g].tasks[i].captured
                    /\ ThumbnailEvents(g, req[g].tasks[i].id) = {}
              /\ req[g].tasks[i].stale = "emit" =>
                    /\ req[g].tasks[i].pc = "done"
                    /\ ThumbnailEvents(g, req[g].tasks[i].id) = {}

\* C22 witness: of the two capture tasks of a superseded request, one was
\* stale at its start and the other, which had captured, before its emit.
C22_StaleAtStartAndBeforeEmit ==
    /\ Len(req[1].tasks) = 2
    /\ \E i, j \in 1..2 :
          /\ req[1].tasks[i].stale = "start"
          /\ req[1].tasks[j].stale = "emit" /\ req[1].tasks[j].captured
    /\ req[2].stale = "none" /\ req[2].pc = "done" /\ req[2].windows # <<>>

\* C23: every window:thumbnail event of a request carries the id of an entry
\* of the windows:list event that the same request emitted first, and no
\* entry of that list has more than one thumbnail event.
C23_ThumbnailsBelongToList ==
    \A g \in Generations :
        /\ \A k \in 1..Len(events[g]) :
              events[g][k].name = "window:thumbnail" =>
                  /\ events[g][1].name = "windows:list"
                  /\ \E i \in 1..Len(events[g][1].payload) :
                        events[g][1].payload[i].id = events[g][k].payload.id
        /\ (events[g] # <<>> /\ events[g][1].name = "windows:list") =>
              \A i \in 1..Len(events[g][1].payload) :
                  Cardinality(ThumbnailEvents(g, events[g][1].payload[i].id)) <= 1

\* C23 witness: the thumbnail events of a list of two windows were emitted
\* in the reverse of the list's order.
C23_ThumbnailsInReverseOrder ==
    \E g \in Generations :
        /\ Len(events[g]) >= 3
        /\ events[g][1].name = "windows:list"
        /\ Len(events[g][1].payload) = 2
        /\ events[g][2].name = "window:thumbnail"
        /\ events[g][2].payload.id = events[g][1].payload[2].id
        /\ events[g][3].name = "window:thumbnail"
        /\ events[g][3].payload.id = events[g][1].payload[1].id

\* C24: an activate of an id that is in the snapshot cache resolves the
\* entry at its first lookup without a list call; no step of an activate
\* that has made no list call changes the cache; a list call is made only
\* when the first lookup missed, and at most once per activate.
C24_CachedActivateDoesNotList ==
    /\ [][\A t \in IpcThreads :
             /\ FindEntry1(t) =>
                   /\ thr[t].id \in DOMAIN snapshot =>
                         /\ thr'[t].pc = "resolved"
                         /\ thr'[t].entry = Some(snapshot[thr[t].id])
                         /\ thr'[t].lists = 0
                   /\ thr'[t].lists # 0 => thr[t].id \notin DOMAIN snapshot
             /\ (thr[t].cmd = "activate_window" /\ thr[t].lists = 0 /\ thr'[t] # thr[t])
                   => snapshot' = snapshot]_vars
    /\ [](\A t \in IpcThreads :
             /\ thr[t].lists <= 1
             /\ thr[t].cmd # "activate_window" => thr[t].lists = 0)

\* C24 witness: an activate of a cached id has succeeded without a list call
\* and the id is still in the cache.
C24_CachedIdActivated ==
    /\ provider = "native"
    /\ thr[MainThread].cmd = "activate_window"
    /\ thr[MainThread].pc = "act_done"
    /\ thr[MainThread].result = "Ok"
    /\ thr[MainThread].lists = 0
    /\ thr[MainThread].id \in DOMAIN snapshot

\* C25: after a successful native list() call that ran alone, the ids of the
\* snapshot cache are exactly the ids of the returned sequence, the cached
\* entry of each returned window has its title, app_name and
\* is_title_fallback, and an id of the previous cache that is not in the new
\* enumeration is not found any more.
C25_CacheMatchesReturnedList ==
    (provider = "native" /\ listOut # None /\ QuerySucceeded(listIn)) =>
        /\ DOMAIN snapshot = IdsOf(listOut[1])
        /\ \A i \in 1..Len(listOut[1]) :
              LET w == listOut[1][i]
                  e == MapGet(snapshot, w.id)
              IN  /\ e # None
                  /\ e[1].id = w.id
                  /\ e[1].title = w.title
                  /\ e[1].app_name = w.app_name
                  /\ e[1].is_title_fallback = w.is_title_fallback
        /\ \A k \in DOMAIN prevSnap \ IdsOf(listOut[1]) : MapGet(snapshot, k) = None

\* C25 witness: a list() call on a cache that held window 10 has returned two
\* windows, neither of them window 10, and window 10 is gone from the cache.
C25_PreviousIdReplaced ==
    /\ provider = "native"
    /\ listOut # None
    /\ Len(listOut[1]) = 2
    /\ prevSnap = PriorSnapshot
    /\ DOMAIN PriorSnapshot \cap DOMAIN snapshot = {}
    /\ Cardinality(DOMAIN snapshot) = 2

\* ------------------------------------------------------------------------
\* activate on an entry of any application name
\* ------------------------------------------------------------------------
\* the names activate_app can be called with as a function of &str: the
\* empty name, two names of whitespace only, and a real name
AppNames == {<<>>, <<" ">>, <<"\t", " ">>, Safari}

\* entries as list() builds them, with the application name replaced
NamedEntries ==
    {[e EXCEPT !.app_name = n, !.title = IF e.is_title_fallback THEN n ELSE e.title] :
        e \in ResolvableEntries, n \in AppNames}

\* activate_window has been invoked with the id of the one cached entry
InitByName ==
    /\ provider = "native"
    /\ \E e \in NamedEntries :
          /\ snapshot = SnapshotOf(<<e>>)
          /\ lastEnum = <<e>>
          /\ targetSnap = SnapshotOf(<<e>>)
          /\ thr = [t \in Threads |->
                       IF t = MainThread
                       THEN [IdleFrame EXCEPT !.cmd = "activate_window", !.pc = "find1",
                                              !.id = e.id]
                       ELSE IdleFrame]
    /\ snapLock = NoThread
    /\ issued = 1
    /\ overlayVisible \in BOOLEAN
    /\ generation = 0
    /\ req = [g \in Generations |-> NoRequest]
    /\ events = [g \in Generations |-> <<>>]
    /\ prevSnap = EmptyMap
    /\ listIn = None
    /\ listCapture = FALSE
    /\ listOut = None
    /\ listThumbs = <<>>

SpecByName == InitByName /\ [][NextActivate]_vars

C27_FailedQueryKeepsCache ==
    [][(MacList /\ ~QuerySucceeded(listIn)) =>
          /\ listOut' = Some(<<>>)
          /\ snapshot' = snapshot
          /\ \A id \in DOMAIN snapshot : MapGet(snapshot', id) = Some(snapshot[id])]_vars

\* C27 witness: the description lookup of a list() call has failed, the call
\* has returned the empty sequence and the cache still holds window 10.
C27_FailedLookupWithCachedWindow ==
    /\ provider = "native"
    /\ listIn = Query(TRUE, None)
    /\ listOut = Some(<<>>)
    /\ snapshot = PriorSnapshot
    /\ snapshot # EmptyMap

\* ------------------------------------------------------------------------
\* One command of the frontend while one refresh request is in flight
\* ------------------------------------------------------------------------
NextCommands ==
    \/ generation = 0 /\ RefreshCall
    \/ RequestStep(1)
    \/ \E r \in OptionalBools, c \in OptionalBools :
          issued = 0 /\ ListWindowsCall(MainThread, r, c)
    \/ \E id \in ActivateIds : issued = 0 /\ ActivateCall(MainThread, id)
    \/ \E id \in ThumbnailIds : issued = 0 /\ GetWindowThumbnail(MainThread, id)
    \/ ListQuery(MainThread)
    \/ SnapBegin(MainThread)
    \/ SnapInsert(MainThread)
    \/ SnapEnd(MainThread)
    \/ ListReturn(MainThread)
    \/ FindEntry1(MainThread)
    \/ FindEntry2(MainThread)
    \/ ActivateEntry(MainThread)
    \/ ActivateReturn(MainThread)
    \/ ThumbnailReturn(MainThread)

SpecCommands == InitRefresh /\ [][NextCommands]_vars

\* C28: the generation counter changes only in a step of
\* refresh_windows_async; no step of list_windows (whatever refresh_cache
\* and capture_thumbnails are), activate_window or get_window_thumbnail
\* changes it, and a refresh request that is not followed by another one is
\* never found stale at any of its checkpoints.
C28_OnlyRefreshChangesGeneration ==
    /\ [][generation' # generation => RefreshCall]_vars
    /\ [][thr'[MainThread] # thr[MainThread] => generation' = generation]_vars
    /\ [](/\ generation = req[1].captures
          /\ req[1].stale = "none"
          /\ req[1].final # "stale"
          /\ \A i \in 1..Len(req[1].tasks) : req[1].tasks[i].stale = "none"
          /\ \A k \in 1..Len(events[1]) : events[1][k].current)

\* C28 witness: list_windows with refresh_cache = true has run to its return
\* value while the refresh request waits for a capture task that has
\* captured and not yet made its check.
C28_CommandDuringRefresh ==
    /\ req[1].pc = "joining"
    /\ \E i \in 1..Len(req[1].tasks) : req[1].tasks[i].pc = "captured"
    /\ thr[MainThread].cmd = "list_windows"
    /\ thr[MainThread].refresh
    /\ thr[MainThread].pc = "list_done"

\* C29: activate_window hides the overlay in its return step and only when
\* the provider's activate returned Ok; when activate returned NotFound or an
\* activation error the visibility of the overlay is what it was and that
\* error is what the command returns; no other step of a command changes
\* the visibility.
C29_OverlayHiddenOnlyOnSuccess ==
    [][\A t \in IpcThreads :
          /\ ActivateReturn(t) =>
                /\ thr'[t].returned = thr[t].result
                /\ thr[t].result = "Ok" => ~overlayVisible'
                /\ thr[t].result \in {"NotFound", "ActivationError"} =>
                      overlayVisible' = overlayVisible
          /\ (thr'[t] # thr[t] /\ ~ActivateReturn(t)) =>
                overlayVisible' = overlayVisible]_vars

\* C29 witness: the overlay is visible and the last activate_window of the
\* thread, on the native provider, has returned an activation error.
C29_FailedActivationOverlayVisible ==
    /\ provider = "native"
    /\ overlayVisible
    /\ thr[MainThread].pc = "idle"
    /\ thr[MainThread].returned = "ActivationError"

====
